---- MODULE Spec2Model ----
(***************************************************************************)
(* Model of the Lua binding of the Lingeling SAT solver                    *)
(* (src/c/grazil/bindings/lingeling/Solver.c).                             *)
(*                                                                         *)
(* A Lua script is the environment: it calls Solver.new, the methods of    *)
(* the class table (addDIMACSequence, isSatisfiable, query, __gc) with     *)
(* whatever values it likes, and the collector finalizes userdata.  Each   *)
(* C function is one action; what it does to the engine is recorded in     *)
(* `calls` (the engine primitives of the last invocation) and in the       *)
(* engine's state.                                                         *)
(*                                                                         *)
(* A lua_Integer is 64 bits wide and the engine's literal is a C int of 32 *)
(* bits.  TLC's integers are 32 bits, so a lua_Integer is the pair         *)
(* (hi, lo) of its two 32-bit halves, lo read as a signed int: the value   *)
(* is hi * 2^32 + lo, and the conversion to int keeps lo.                  *)
(*                                                                         *)
(* The MATLAB entry point (src/grazil/interface/matlab/grazil.c) runs a    *)
(* script in an interpreter of its own and writes the edges it returns     *)
(* into an adjacency matrix; `mex` holds one call of it.                   *)
(***************************************************************************)
EXTENDS Integers, Sequences, FiniteSets, TLC

\* ------------------------------------------------------------- bounds
MaxSessions == 1   \* calls of Solver.new in one run
MaxStream == 4     \* literals forwarded to the engines in one run
MaxEntries == 2    \* entries (scalars and table entries) in one call
MaxVar == 2        \* variables the reference solver ranges over
MaxRelease == 2    \* lglrelease calls on one engine in one run
MaxN == 2          \* size n of the adjacency matrix
MaxRet == 4        \* entries of the table the executed script returns

\* ------------------------------------------------------------- Lua values
\* k: "int" an integer, "float" a float with an integral value, "numstr" a
\* string that denotes an integer, "fracfloat" a float with a fraction,
\* "str" any other string, "nil".  (hi, lo) is the integral value.
LuaInt(h, l) == [k |-> "int", hi |-> h, lo |-> l]
I(n) == LuaInt(0, n)
Pow32 == LuaInt(1, 0)          \* 4294967296
Pow32p1 == LuaInt(1, 1)        \* 4294967297
StrX == [k |-> "str", hi |-> 0, lo |-> 0]
NumStr(n) == [k |-> "numstr", hi |-> 0, lo |-> n]
Flt(n) == [k |-> "float", hi |-> 0, lo |-> n]
Frac == [k |-> "fracfloat", hi |-> 0, lo |-> 0]
Nil == [k |-> "nil", hi |-> 0, lo |-> 0]

\* An argument is a scalar value or a table (its entries 1..len).
Scalar(v) == [tbl |-> FALSE, v |-> v, elems |-> <<>>]
Table(es) == [tbl |-> TRUE, v |-> Nil, elems |-> es]

SeqsUpTo(S, n) == UNION {[1..m -> S] : m \in 0..n}

\* The entries of one argument, in index order.
Entries(a) == IF a.tbl THEN a.elems ELSE <<a.v>>

RECURSIVE NEntries(_)
NEntries(args) == IF args = <<>> THEN 0 ELSE Len(Entries(Head(args))) + NEntries(Tail(args))

\* Every argument list over the values V: up to MaxEntries arguments, scalars
\* and tables mixed, MaxEntries entries in all.
ArgLists(V) ==
    LET A1 == {Scalar(v) : v \in V} \cup {Table(es) : es \in SeqsUpTo(V, MaxEntries)}
    IN  {as \in SeqsUpTo(A1, MaxEntries) : NEntries(as) <= MaxEntries}

\* Every call of query with a table over the values V, and the malformed
\* calls: no argument, a scalar, one argument too many.
QueryLists(V) ==
    {<<>>, <<Scalar(I(1))>>, <<Table(<<I(1)>>), Scalar(I(1))>>}
        \cup {<<Table(es)>> : es \in SeqsUpTo(V, MaxEntries)}

\* What the scripts of each specification pass (see the specifications at
\* the end): a few fixed calls for the whole life of a session, every
\* argument list over a value set where one operation is looked at closely.
AddScript ==
    {<<>>, <<Scalar(I(1))>>, <<Scalar(I(0))>>, <<Table(<<I(-1), I(0)>>)>>,
     <<Scalar(I(1)), Scalar(StrX)>>, <<Scalar(Pow32)>>}
QueryScript ==
    {<<>>, <<Scalar(I(1))>>, <<Table(<<I(1), I(-2)>>)>>, <<Table(<<I(1), I(0)>>)>>,
     <<Table(<<Pow32p1>>)>>}
SolveScript == {<<Scalar(I(1)), Scalar(I(0))>>, <<Table(<<I(-1), I(0)>>)>>, <<Scalar(I(2))>>}
AddArgLists == ArgLists({I(1), NumStr(0), Frac, StrX})
ClauseArgLists == ArgLists({I(1), I(-1), I(0)})
QueryArgLists == QueryLists({I(1), I(-2), I(0), Pow32p1})

\* lua_tointegerx: the integer a value converts to, and whether it does.
lua_tointegerx(v) ==
    IF v.k \in {"int", "float", "numstr"}
    THEN [ok |-> TRUE, hi |-> v.hi, lo |-> v.lo]
    ELSE [ok |-> FALSE, hi |-> 0, lo |-> 0]

\* lua_tointeger: lua_tointegerx without the flag; 0 when it fails.
lua_tointeger(v) == [hi |-> lua_tointegerx(v).hi, lo |-> lua_tointegerx(v).lo]

\* The implicit conversion of a lua_Integer to the int parameter of lgladd
\* and lglderef keeps the low 32 bits.
CInt(c) == c.lo

\* !c on a lua_Integer.
IsZero(c) == c.hi = 0 /\ c.lo = 0

\* ------------------------------------------------------------- objects
\* The values a script can pass as self: a number ("num"), the class table
\* itself ("cls", as in Solver:new()), a table made with setmetatable({},
\* Solver) ("inst"), a full userdata of another library ("fud", it has that
\* library's metatable), and the userdata Solver.new has created.
Foreign == {"num", "cls", "inst", "fud"}
NoArg == [f |-> "absent", s |-> 0]
Sessions == 1..MaxSessions
F(x) == [f |-> x, s |-> 0]
S(i) == [f |-> "", s |-> i]
Objs == {F(x) : x \in Foreign} \cup {S(i) : i \in Sessions}
IsUserdata(o) == o.s # 0 \/ o.f = "fud"

VARIABLES
    mt,         \* object -> its metatable: "none", "Solver", "Other"
    life,       \* session userdata -> "unborn", "live", "dead"
    ud,         \* session userdata -> what its block holds: "none", "eng", "null"
    est,        \* engine -> "none", "live", "released"
    rel,        \* engine -> the number of lglrelease calls on it
    stream,     \* engine -> the literals lgladd has received
    res,        \* engine -> "READY", "SATISFIED", "UNSATISFIED", "UNKNOWN"
    model,      \* engine -> the assignment found by the last satisfiable solve
    submitted,  \* engine -> the literals of the successful addDIMACSequence calls
    clean,      \* engine -> every call so far succeeded, with literals an int holds
    solved,     \* engine -> an earlier isSatisfiable on it has returned true
    pc,         \* "run", or "crashed" (abort or fault inside the engine)
    last,       \* the last invocation: what was called, the arguments it read, the outcome
    calls,      \* the engine primitives the last invocation has called
    mex         \* the MATLAB entry point: its last call, "idle" between calls

vars == <<mt, life, ud, est, rel, stream, res, model, submitted, clean, solved, pc, last, calls, mex>>

\* ------------------------------------------------------------- the engine
\* Lingeling behind lglib.h, as far as the binding can observe it: lgladd
\* appends a literal (0 closes the clause), lglsat decides the closed clauses,
\* lglderef reports the sign of a literal in the model found.
Assignments == [1..MaxVar -> BOOLEAN]
NoModel == [v \in 1..MaxVar |-> FALSE]
Abs(n) == IF n < 0 THEN -n ELSE n
LitTrue(a, l) == IF Abs(l) > MaxVar THEN FALSE ELSE IF l > 0 THEN a[l] ELSE ~a[-l]

\* The clauses of a literal stream: the closed ones and the one still open.
RECURSIVE Parse(_, _, _)
Parse(s, cur, done) ==
    IF s = <<>> THEN [closed |-> done, open |-> cur]
    ELSE IF Head(s) = 0 THEN Parse(Tail(s), <<>>, done \cup {{cur[j] : j \in 1..Len(cur)}})
    ELSE Parse(Tail(s), Append(cur, Head(s)), done)
Clauses(s) == Parse(s, <<>>, {})

Satisfies(a, cnf) == \A c \in cnf : \E l \in c : LitTrue(a, l)
Models(cnf) == {a \in Assignments : Satisfies(a, cnf)}
Satisfiable(cnf) == Models(cnf) # {}

LGL_UNKNOWN == 0
LGL_SATISFIABLE == 10
LGL_UNSATISFIABLE == 20

\* What one lglsat call on a stream can do: abort (a clause is still open:
\* "clause terminating zero missing"), report a model, report unsatisfiable,
\* or give up with LGL_UNKNOWN (a limit set through the engine's environment).
LglSat(s) ==
    LET p == Clauses(s)
        verdicts ==
            {[abort |-> FALSE, code |-> LGL_SATISFIABLE, m |-> a] : a \in Models(p.closed)}
            \cup (IF Satisfiable(p.closed) THEN {}
                  ELSE {[abort |-> FALSE, code |-> LGL_UNSATISFIABLE, m |-> NoModel]})
            \cup {[abort |-> FALSE, code |-> LGL_UNKNOWN, m |-> NoModel]}
    IN  IF p.open # <<>>
        THEN {[abort |-> TRUE, code |-> LGL_UNKNOWN, m |-> NoModel]} \cup verdicts
        ELSE verdicts

\* What a foreign block read as an engine can answer, if it answers at all.
WildSat == {[abort |-> FALSE, code |-> c, m |-> NoModel] :
                c \in {LGL_UNKNOWN, LGL_SATISFIABLE, LGL_UNSATISFIABLE}}

StateOf(code) ==
    IF code = LGL_SATISFIABLE THEN "SATISFIED"
    ELSE IF code = LGL_UNSATISFIABLE THEN "UNSATISFIED" ELSE "UNKNOWN"

\* lglderef in the SATISFIED state: the sign of the literal, never the literal.
LglDeref(a, l) == IF LitTrue(a, l) THEN 1 ELSE -1

\* Outside the SATISFIED state lglderef is outside its contract: the engine
\* aborts or answers some sign.
Oracles == {[abort |-> TRUE, val |-> 0]} \cup {[abort |-> FALSE, val |-> x] : x \in {-1, 0, 1}}
NoOracle == [abort |-> FALSE, val |-> 0]

Ev(p, on, lit, r) == [p |-> p, on |-> on, lit |-> lit, r |-> r]

\* ------------------------------------------------------------- the binding
InvalidSelf == "Invalid self argument"
IllegalArg == "Illegal argument in DIMACS sequence"
QueryArity == "Query must be called with arguments self and a table"
QueryType == "Query must be called with a table argument"
NonZero == "Array may contain only non-zero integers"

\* The LGL* a userdata block holds.
HandleOf(o) ==
    IF o.s = 0 THEN [kind |-> "wild", e |-> 0]
    ELSE IF ud[o.s] = "eng" THEN [kind |-> "eng", e |-> o.s]
    ELSE [kind |-> "null", e |-> 0]

\* How a handle stands when a primitive is called on it.
Mode(h) ==
    IF h.kind = "eng" THEN (IF est[h.e] = "live" THEN "live" ELSE "dangling")
    ELSE h.kind

\* A call on a released or foreign handle is undefined: it faults, or it
\* goes on as if the memory were still the engine's.
UbChoices(m) == IF m \in {"dangling", "wild"} THEN {"crash", "benign"} ELSE {"benign"}

\* get_lgl: the metatable of argument 1 must be the Solver class and the
\* argument a userdata; the handle is whatever its block holds.
get_lgl(self) ==
    IF mt[self] = "none" THEN [ok |-> FALSE, h |-> HandleOf(F("cls"))]
    ELSE IF mt[self] # "Solver" THEN [ok |-> FALSE, h |-> HandleOf(F("cls"))]
    ELSE IF ~IsUserdata(self) THEN [ok |-> FALSE, h |-> HandleOf(F("cls"))]
    ELSE [ok |-> TRUE, h |-> HandleOf(self)]

\* The values a script can name as self: any foreign value, any userdata that
\* has been created and not yet collected.
Passable(o) == IF o.s = 0 THEN TRUE ELSE life[o.s] = "live"

\* Whether self is a session of this class already released.
Disposed(o) == IF o.s = 0 THEN FALSE ELSE ud[o.s] = "eng" /\ est[o.s] = "released"

\* What the specification calls a valid session: a userdata whose metatable is
\* the Solver class.
ValidSelf(o) == mt[o] = "Solver" /\ IsUserdata(o)

\* The record of an invocation: the operation, self and how it stood when
\* the call began (valid: a userdata of the class; mode: how its handle stood,
\* "none" when self is not valid; disposed: its engine was released), the
\* arguments read, how the call ended ("ret", "err", "crash"), the message
\* raised, the value returned and the return code of lglsat; rep: a query
\* that repeats the call before it (same self, same table, which returned).
NoCall ==
    [op |-> "none", self |-> F("cls"), valid |-> FALSE, mode |-> "none",
     disposed |-> FALSE, args |-> <<>>, done |-> "ret", err |-> "",
     retB |-> FALSE, retT |-> <<>>, code |-> -1, rep |-> FALSE]

Call(op, self, args) ==
    [NoCall EXCEPT !.op = op, !.self = self, !.args = args,
                   !.valid = ValidSelf(self),
                   !.mode = IF ValidSelf(self) THEN Mode(HandleOf(self)) ELSE "none",
                   !.disposed = Disposed(self)]

Raised(c, msg) == [c EXCEPT !.done = "err", !.err = msg]
Crashed(c) == [c EXCEPT !.done = "crash"]

TotalStream == LET RECURSIVE Sum(_)
                   Sum(n) == IF n = 0 THEN 0 ELSE Len(stream[n]) + Sum(n - 1)
               IN  Sum(MaxSessions)

\* ------------------------------------------------------------- grazil.c
\* One call of mexFunction: the matrix size n, how it ended (done), the
\* interpreter states created (opened) and closed, and the writes into the
\* n-by-n output matrix, each with the vertices read and the index written.
MexIdle == [done |-> "idle", n |-> 0, opened |-> 0, closed |-> 0, writes |-> <<>>]

\* What the executed script can leave on the stack: no table at all, or a
\* table of at most MaxRet vertex numbers u1, v1, u2, v2, ...
NoTable == <<-1>>
Vertices == 0..(MaxN + 1)
EdgeLists == SeqsUpTo(Vertices, MaxRet)

\* One write of the loop: u and v as read, the index after u--; v--.
Write(n, u, v) == [u |-> u, v |-> v, idx |-> n * (u - 1) + (v - 1)]
InBounds(n, w) == 0 <= w.idx /\ w.idx < n * n

\* The loop over the m = len / 2 pairs of the returned table, from pair i.
\* A write outside the matrix is undefined: it faults, or it lands in
\* memory beyond the matrix and the loop goes on.
RECURSIVE EdgeLoop(_, _, _, _)
EdgeLoop(n, t, i, ub) ==
    IF i >= Len(t) \div 2 THEN [ws |-> <<>>, crash |-> FALSE]
    ELSE LET w == Write(n, t[2 * i + 1], t[2 * i + 2])
             rest == EdgeLoop(n, t, i + 1, ub)
         IN  IF ~InBounds(n, w) /\ ub = "crash" THEN [ws |-> <<w>>, crash |-> TRUE]
             ELSE [ws |-> <<w>> \o rest.ws, crash |-> rest.crash]

\* mexErrMsgIdAndTxt inside getGraphFromLua: control goes back to MATLAB
\* and never returns to the function.
ErrorExit(c) == c

\* getGraphFromLua(buf, n, outMatrix): status is what luaL_loadfile
\* returns, result what lua_pcall returns, ret what the script leaves.
getGraphFromLua(n, status, result, ret, ub) ==
    LET c == [MexIdle EXCEPT !.n = n, !.opened = 1]
        loop == EdgeLoop(n, ret, 0, ub)
    IN  IF status # 0 THEN ErrorExit([c EXCEPT !.done = "loadError"])
        ELSE IF result # 0 THEN ErrorExit([c EXCEPT !.done = "runError"])
        ELSE IF ret = NoTable THEN [c EXCEPT !.done = "panic"]
        ELSE IF loop.crash THEN [c EXCEPT !.done = "crash", !.writes = loop.ws]
        ELSE [c EXCEPT !.done = "ret", !.writes = loop.ws, !.closed = 1]

\* mexFunction: the argument checks, then getGraphFromLua on an n-by-n
\* matrix of zeros.
mexFunction(nrhs, nlhs, n, status, result, ret, ub) ==
    /\ mex.done = "idle"
    /\ mex' = IF nrhs # 2 THEN [MexIdle EXCEPT !.done = "invalidNumInputs"]
              ELSE IF nlhs > 1 THEN [MexIdle EXCEPT !.done = "maxlhs"]
              ELSE getGraphFromLua(n, status, result, ret, ub)
    /\ UNCHANGED <<mt, life, ud, est, rel, stream, res, model, submitted, clean, solved,
                   pc, last, calls>>

\* MATLAB has the result, or the error, and is ready for the next call.
MexReturn ==
    /\ mex.done # "idle"
    /\ mex' = MexIdle
    /\ UNCHANGED <<mt, life, ud, est, rel, stream, res, model, submitted, clean, solved,
                   pc, last, calls>>

\* ------------------------------------------------------------- Solver_new
Init ==
    /\ mt = [o \in Objs |-> IF o = F("fud") THEN "Other"
                            ELSE IF o = F("inst") THEN "Solver" ELSE "none"]
    /\ life = [i \in Sessions |-> "unborn"]
    /\ ud = [i \in Sessions |-> "none"]
    /\ est = [i \in Sessions |-> "none"]
    /\ rel = [i \in Sessions |-> 0]
    /\ stream = [i \in Sessions |-> <<>>]
    /\ res = [i \in Sessions |-> "READY"]
    /\ model = [i \in Sessions |-> NoModel]
    /\ submitted = [i \in Sessions |-> <<>>]
    /\ clean = [i \in Sessions |-> TRUE]
    /\ solved = [i \in Sessions |-> FALSE]
    /\ pc = "run"
    /\ last = NoCall
    /\ calls = <<>>
    /\ mex = MexIdle

\* Solver_new: the new userdata is pushed on top of the arguments, and the
\* class becomes the metatable of stack index 1: the userdata when the call
\* has no argument, the first argument otherwise.
Solver_new(a1, initOK) ==
    /\ pc = "run"
    /\ IF a1 = NoArg THEN TRUE ELSE Passable(a1)
    /\ \E i \in Sessions :
        /\ life[i] = "unborn"
        /\ \A k \in 1..(i - 1) : life[k] # "unborn"
        /\ LET index1 == IF a1 = NoArg THEN S(i) ELSE a1
           IN  /\ mt' = [mt EXCEPT ![index1] = "Solver"]
               /\ last' = [Call("new", S(i), <<>>) EXCEPT
                              !.valid = (index1 = S(i)),
                              !.mode = IF index1 # S(i) THEN "none"
                                       ELSE IF initOK THEN "live" ELSE "null"]
        /\ life' = [life EXCEPT ![i] = "live"]
        /\ ud' = [ud EXCEPT ![i] = IF initOK THEN "eng" ELSE "null"]
        /\ est' = [est EXCEPT ![i] = IF initOK THEN "live" ELSE "none"]
        /\ calls' = <<Ev("lglinit", IF initOK THEN "live" ELSE "null", 0, 0)>>
    /\ UNCHANGED <<mex, rel, stream, res, model, submitted, clean, solved, pc>>

\* ------------------------------------------------------------- Solver_gc
\* Solver_gc: lglrelease on whatever the block of a userdata holds; no check
\* of the metatable, no mark that the engine is gone.  A released engine's
\* clause database is freed with it.
Solver_gc(self, op, ub) ==
    LET c == Call(op, self, <<>>)
        h == HandleOf(self)
        m == Mode(h)
        crash == m = "null" \/ ub = "crash"
        freed == m = "live"
    IN  IF ~IsUserdata(self)
        THEN /\ calls' = <<>>
             /\ last' = c
             /\ UNCHANGED <<est, rel, stream, res, model, submitted, clean, solved, pc>>
        ELSE /\ h.kind = "eng" => rel[h.e] < MaxRelease
             /\ calls' = <<Ev("lglrelease", m, 0, 0)>>
             /\ est' = IF freed THEN [est EXCEPT ![h.e] = "released"] ELSE est
             /\ rel' = IF h.kind = "eng" THEN [rel EXCEPT ![h.e] = @ + 1] ELSE rel
             /\ stream' = IF freed THEN [stream EXCEPT ![h.e] = <<>>] ELSE stream
             /\ res' = IF freed THEN [res EXCEPT ![h.e] = "READY"] ELSE res
             /\ model' = IF freed THEN [model EXCEPT ![h.e] = NoModel] ELSE model
             /\ submitted' = IF freed THEN [submitted EXCEPT ![h.e] = <<>>] ELSE submitted
             /\ clean' = IF freed THEN [clean EXCEPT ![h.e] = TRUE] ELSE clean
             /\ solved' = IF freed THEN [solved EXCEPT ![h.e] = FALSE] ELSE solved
             /\ pc' = IF crash THEN "crashed" ELSE "run"
             /\ last' = IF crash THEN Crashed(c) ELSE c

\* The script calls the finalizer itself: it is the field __gc of the class
\* table, which is also the __index of every session.
ExplicitGc(self) ==
    /\ pc = "run"
    /\ Passable(self)
    /\ \E ub \in UbChoices(Mode(HandleOf(self))) : Solver_gc(self, "gc", ub)
    /\ UNCHANGED <<mex, mt, life, ud>>

\* The collector finalizes a userdata that carries the class (and so __gc).
Finalize(i) ==
    /\ pc = "run"
    /\ life[i] = "live"
    /\ mt[S(i)] = "Solver"
    /\ \E ub \in UbChoices(Mode(HandleOf(S(i)))) : Solver_gc(S(i), "finalize", ub)
    /\ life' = [life EXCEPT ![i] = "dead"]
    /\ UNCHANGED <<mex, mt, ud>>

\* The collector frees a userdata that carries no finalizer.
Collect(i) ==
    /\ pc = "run"
    /\ life[i] = "live"
    /\ mt[S(i)] # "Solver"
    /\ life' = [life EXCEPT ![i] = "dead"]
    /\ last' = NoCall
    /\ calls' = <<>>
    /\ UNCHANGED <<mex, mt, ud, est, rel, stream, res, model, submitted, clean, solved, pc>>

\* ------------------------------------------------------------- Solver_addDIMACSSeqence
\* The arguments of a call laid end to end, tables in index order.
RECURSIVE Flatten(_)
Flatten(args) == IF args = <<>> THEN <<>> ELSE Entries(Head(args)) \o Flatten(Tail(args))

\* A value that is an integer (as a number or as a string denoting one).
Representable(v) == v.k \in {"int", "float", "numstr"}

\* A value that is a DIMACS literal: an integer an int holds.
IsLiteral(v) == Representable(v) /\ v.hi = 0

\* (mutant) the inner loop stopping one entry short.
RECURSIVE TableLoopShort(_, _, _)
TableLoopShort(t, j, acc) ==
    IF j >= Len(t) THEN acc
    ELSE LET c == lua_tointegerx(t[j])
         IN  IF ~c.ok THEN [acc EXCEPT !.err = TRUE]
             ELSE TableLoopShort(t, j + 1, [acc EXCEPT !.fwd = Append(@, CInt(c))])

\* The inner loop: entries j..len of a table argument.  acc.fwd are the
\* literals given to lgladd so far, acc.err whether lua_error was raised.
RECURSIVE TableLoop(_, _, _)
TableLoop(t, j, acc) ==
    IF j > Len(t) THEN acc
    ELSE LET c == lua_tointegerx(t[j])
         IN  IF ~c.ok THEN [acc EXCEPT !.err = TRUE]
             ELSE TableLoop(t, j + 1, [acc EXCEPT !.fwd = Append(@, CInt(c))])

\* (mutant) the outer loop without the check of a scalar's conversion.
RECURSIVE ArgLoopUnchecked(_, _, _)
ArgLoopUnchecked(args, i, acc) ==
    IF i > Len(args) + 1 \/ acc.err THEN acc
    ELSE IF args[i - 1].tbl
         THEN ArgLoopUnchecked(args, i + 1, TableLoop(args[i - 1].elems, 1, acc))
         ELSE LET c == lua_tointegerx(args[i - 1].v)
              IN  ArgLoopUnchecked(args, i + 1, [acc EXCEPT !.fwd = Append(@, CInt(c))])

\* The outer loop: stack indices i..n, index 1 being self.
RECURSIVE ArgLoop(_, _, _)
ArgLoop(args, i, acc) ==
    IF i > Len(args) + 1 \/ acc.err THEN acc
    ELSE IF args[i - 1].tbl
         THEN ArgLoop(args, i + 1, TableLoop(args[i - 1].elems, 1, acc))
         ELSE LET c == lua_tointegerx(args[i - 1].v)
              IN  IF ~c.ok THEN [acc EXCEPT !.err = TRUE]
                  ELSE ArgLoop(args, i + 1, [acc EXCEPT !.fwd = Append(@, CInt(c))])

\* On a released or foreign handle a call that does not fault has no effect
\* this model follows; `submitted` and `clean` are the caller's view of a
\* live engine.
Solver_addDIMACSSeqence(self, A) ==
    /\ pc = "run"
    /\ Passable(self)
    /\ LET g == get_lgl(self)
       IN  IF ~g.ok
           THEN /\ last' = Raised(Call("add", self, <<>>), InvalidSelf)
                /\ calls' = <<>>
                /\ UNCHANGED <<stream, res, model, submitted, clean, solved, pc>>
           ELSE \E args \in A : \E ub \in UbChoices(Mode(g.h)) :
                LET c == Call("add", self, args)
                    m == Mode(g.h)
                    w == ArgLoop(args, 2, [fwd |-> <<>>, err |-> FALSE])
                    crash == w.fwd # <<>> /\ (m = "null" \/ ub = "crash")
                    n == IF crash THEN 1 ELSE Len(w.fwd)
                    onEng == m = "live" /\ w.fwd # <<>>
                    flat == Flatten(args)
                    ok == ~w.err /\ \A j \in 1..Len(flat) : IsLiteral(flat[j])
                    keep == m = "live" /\ clean[g.h.e] /\ (ok \/ w.fwd = <<>>)
                IN  /\ TotalStream + Len(w.fwd) <= MaxStream
                    /\ calls' = [j \in 1..n |-> Ev("lgladd", m, w.fwd[j], 0)]
                    /\ stream' = IF onEng THEN [stream EXCEPT ![g.h.e] = @ \o w.fwd] ELSE stream
                    /\ res' = IF onEng THEN [res EXCEPT ![g.h.e] = "READY"] ELSE res
                    /\ model' = IF onEng THEN [model EXCEPT ![g.h.e] = NoModel] ELSE model
                    /\ submitted' =
                          IF m # "live" THEN submitted
                          ELSE IF ~keep THEN [submitted EXCEPT ![g.h.e] = <<>>]
                          ELSE IF ok
                          THEN [submitted EXCEPT
                                   ![g.h.e] = @ \o [j \in 1..Len(flat) |-> flat[j].lo]]
                          ELSE submitted
                    /\ clean' = IF m = "live" THEN [clean EXCEPT ![g.h.e] = keep] ELSE clean
                    /\ solved' = solved
                    /\ pc' = IF crash THEN "crashed" ELSE "run"
                    /\ last' = IF crash THEN Crashed(c)
                               ELSE IF w.err THEN Raised(c, IllegalArg) ELSE c
    /\ UNCHANGED <<mex, mt, life, ud, est, rel>>

\* ------------------------------------------------------------- Solver_isSatisfiable
\* (mutant) false only for a proved unsatisfiable.
SatResultNotUnsat(code) == code # LGL_UNSATISFIABLE

\* The boolean pushed for a return code of lglsat.
SatResult(code) == code = LGL_SATISFIABLE

Solver_isSatisfiable(self) ==
    /\ pc = "run"
    /\ Passable(self)
    /\ LET g == get_lgl(self)
           c == Call("sat", self, <<>>)
       IN  IF ~g.ok
           THEN /\ last' = Raised(c, InvalidSelf)
                /\ calls' = <<>>
                /\ UNCHANGED <<res, model, solved, pc>>
           ELSE \E ub \in UbChoices(Mode(g.h)) :
                \E o \in (IF Mode(g.h) = "live" THEN LglSat(stream[g.h.e]) ELSE WildSat) :
                LET m == Mode(g.h)
                    crash == m = "null" \/ ub = "crash" \/ o.abort
                    onEng == m = "live" /\ ~crash
                IN  /\ calls' = <<Ev("lglsat", m, 0, IF crash THEN -1 ELSE o.code)>>
                    /\ res' = IF onEng THEN [res EXCEPT ![g.h.e] = StateOf(o.code)] ELSE res
                    /\ model' = IF onEng THEN [model EXCEPT ![g.h.e] = o.m] ELSE model
                    /\ solved' = IF onEng /\ SatResult(o.code)
                                  THEN [solved EXCEPT ![g.h.e] = TRUE] ELSE solved
                    /\ pc' = IF crash THEN "crashed" ELSE "run"
                    /\ last' = IF crash THEN Crashed(c)
                               ELSE [c EXCEPT !.retB = SatResult(o.code), !.code = o.code]
    /\ UNCHANGED <<mex, mt, life, ud, est, rel, stream, submitted, clean>>

\* ------------------------------------------------------------- Solver_query
\* One lglderef(lgl, l): [crash, r].  The engine aborts on the literal 0.
Deref(h, l, ub, orc) ==
    LET m == Mode(h)
    IN  IF m = "null" \/ ub = "crash" THEN [crash |-> TRUE, r |-> 0]
        ELSE IF m # "live" THEN [crash |-> orc.abort, r |-> orc.val]
        ELSE IF l = 0 THEN [crash |-> TRUE, r |-> 0]
        ELSE IF res[h.e] = "SATISFIED" THEN [crash |-> FALSE, r |-> LglDeref(model[h.e], l)]
        ELSE [crash |-> orc.abort, r |-> orc.val]

OracleChoices(h) ==
    IF Mode(h) = "null" \/ (Mode(h) = "live" /\ res[h.e] = "SATISFIED") THEN {NoOracle}
    ELSE Oracles

\* (mutant) the loop refusing to ask an engine that holds no model.
RECURSIVE QueryLoopGated(_, _, _, _, _, _)
QueryLoopGated(t, j, h, ub, orc, acc) ==
    IF j > Len(t) \/ acc.st # "go" THEN acc
    ELSE LET c == lua_tointeger(t[j])
             d == Deref(h, CInt(c), ub, orc)
             gated == IF Mode(h) = "live" THEN res[h.e] # "SATISFIED" ELSE FALSE
         IN  IF IsZero(c) \/ gated THEN [acc EXCEPT !.st = "err"]
             ELSE IF d.crash
                  THEN [acc EXCEPT !.st = "crash",
                                   !.evs = Append(@, Ev("lglderef", Mode(h), CInt(c), 0))]
                  ELSE QueryLoopGated(t, j + 1, h, ub, orc,
                                 [acc EXCEPT !.out = Append(@, d.r),
                                             !.evs = Append(@, Ev("lglderef", Mode(h), CInt(c), d.r))])

\* (mutant) the loop asking the engine for the variable, not the literal.
RECURSIVE QueryLoopAbs(_, _, _, _, _, _)
QueryLoopAbs(t, j, h, ub, orc, acc) ==
    IF j > Len(t) \/ acc.st # "go" THEN acc
    ELSE LET c == lua_tointeger(t[j])
             d == Deref(h, Abs(CInt(c)), ub, orc)
         IN  IF IsZero(c) THEN [acc EXCEPT !.st = "err"]
             ELSE IF d.crash
                  THEN [acc EXCEPT !.st = "crash",
                                   !.evs = Append(@, Ev("lglderef", Mode(h), Abs(CInt(c)), 0))]
                  ELSE QueryLoopAbs(t, j + 1, h, ub, orc,
                                 [acc EXCEPT !.out = Append(@, d.r),
                                             !.evs = Append(@, Ev("lglderef", Mode(h), Abs(CInt(c)), d.r))])

\* (mutant) the loop storing the literal with the sign the engine reports.
RECURSIVE QueryLoopSigned(_, _, _, _, _, _)
QueryLoopSigned(t, j, h, ub, orc, acc) ==
    IF j > Len(t) \/ acc.st # "go" THEN acc
    ELSE LET c == lua_tointeger(t[j])
             d == Deref(h, CInt(c), ub, orc)
         IN  IF IsZero(c) THEN [acc EXCEPT !.st = "err"]
             ELSE IF d.crash
                  THEN [acc EXCEPT !.st = "crash",
                                   !.evs = Append(@, Ev("lglderef", Mode(h), CInt(c), 0))]
                  ELSE QueryLoopSigned(t, j + 1, h, ub, orc,
                                 [acc EXCEPT !.out = Append(@, d.r * Abs(CInt(c))),
                                             !.evs = Append(@, Ev("lglderef", Mode(h), CInt(c), d.r))])

\* The loop over the entries j..len of the table at stack index 2; acc.out is
\* the table at index 3, acc.evs the lglderef calls, acc.st how the loop ended.
RECURSIVE QueryLoop(_, _, _, _, _, _)
QueryLoop(t, j, h, ub, orc, acc) ==
    IF j > Len(t) \/ acc.st # "go" THEN acc
    ELSE LET c == lua_tointeger(t[j])
             d == Deref(h, CInt(c), ub, orc)
         IN  IF IsZero(c) THEN [acc EXCEPT !.st = "err"]
             ELSE IF d.crash
                  THEN [acc EXCEPT !.st = "crash",
                                   !.evs = Append(@, Ev("lglderef", Mode(h), CInt(c), 0))]
                  ELSE QueryLoop(t, j + 1, h, ub, orc,
                                 [acc EXCEPT !.out = Append(@, d.r),
                                             !.evs = Append(@, Ev("lglderef", Mode(h), CInt(c), d.r))])

\* (mutant) a query that throws away the result of the solve.
ResAfterQueryReset(h) ==
    IF Mode(h) = "live" THEN [res EXCEPT ![h.e] = "READY"] ELSE res

\* The engine states after a query: it calls lglderef only, which reads.
ResAfterQuery(h) == res

Solver_query(self, Q) ==
    /\ pc = "run"
    /\ Passable(self)
    /\ LET g == get_lgl(self)
       IN  IF ~g.ok
           THEN /\ last' = Raised(Call("query", self, <<>>), InvalidSelf)
                /\ calls' = <<>>
                /\ pc' = pc
           ELSE \E args \in Q :
                LET c == [Call("query", self, args) EXCEPT
                             !.rep = /\ last.op = "query"
                                     /\ last.self = self
                                     /\ last.args = args
                                     /\ last.done = "ret"]
                IN  IF Len(args) + 1 # 2
                    THEN last' = Raised(c, QueryArity) /\ calls' = <<>> /\ pc' = pc
                    ELSE IF ~args[1].tbl
                    THEN last' = Raised(c, QueryType) /\ calls' = <<>> /\ pc' = pc
                    ELSE \E ub \in UbChoices(Mode(g.h)) : \E orc \in OracleChoices(g.h) :
                         LET q == QueryLoop(args[1].elems, 1, g.h, ub, orc,
                                            [out |-> <<>>, evs |-> <<>>, st |-> "go"])
                         IN  /\ calls' = q.evs
                             /\ pc' = IF q.st = "crash" THEN "crashed" ELSE "run"
                             /\ last' = IF q.st = "crash" THEN Crashed(c)
                                        ELSE IF q.st = "err" THEN Raised(c, NonZero)
                                        ELSE [c EXCEPT !.retT = q.out]
    /\ res' = ResAfterQuery(HandleOf(self))
    /\ UNCHANGED <<mex, mt, life, ud, est, rel, stream, model, submitted, clean, solved>>

\* ------------------------------------------------------------- specifications
\* The binding is the same in all of them; they differ in what the script
\* passes.  Spec: every operation with a few fixed argument lists.
Lifecycle ==
    \/ \E a1 \in Objs \cup {NoArg}, initOK \in BOOLEAN : Solver_new(a1, initOK)
    \/ \E self \in Objs : ExplicitGc(self)
    \/ \E i \in Sessions : Finalize(i)
    \/ \E i \in Sessions : Collect(i)

Next ==
    \/ Lifecycle
    \/ \E self \in Objs : Solver_addDIMACSSeqence(self, AddScript)
    \/ \E self \in Objs : Solver_isSatisfiable(self)
    \/ \E self \in Objs : Solver_query(self, QueryScript)

Spec == Init /\ [][Next]_vars

\* SpecAdd: every argument list of addDIMACSequence.
NextAdd ==
    \/ Lifecycle
    \/ \E self \in Objs : Solver_addDIMACSSeqence(self, AddArgLists)

SpecAdd == Init /\ [][NextAdd]_vars

\* SpecSolve: every way to submit clauses over MaxVar variables, and solves.
NextSolve ==
    \/ Lifecycle
    \/ \E self \in Objs : Solver_addDIMACSSeqence(self, ClauseArgLists)
    \/ \E self \in Objs : Solver_isSatisfiable(self)

SpecSolve == Init /\ [][NextSolve]_vars

\* SpecQuery: every table of query, after the fixed clause submissions.
NextQuery ==
    \/ Lifecycle
    \/ \E self \in Objs : Solver_addDIMACSSeqence(self, SolveScript)
    \/ \E self \in Objs : Solver_isSatisfiable(self)
    \/ \E self \in Objs : Solver_query(self, QueryArgLists)

SpecQuery == Init /\ [][NextQuery]_vars

\* SpecMex: calls of the MATLAB entry point with every script outcome.
NextMex ==
    \/ \E nrhs \in 1..2, nlhs \in 1..2, n \in 0..MaxN, status \in 0..1, result \in 0..1,
          ret \in EdgeLists \cup {NoTable}, ub \in {"crash", "benign"} :
            mexFunction(nrhs, nlhs, n, status, result, ret, ub)
    \/ MexReturn

SpecMex == Init /\ [][NextMex]_vars

\* SpecModel: clauses over two variables, split across calls, solved and
\* queried.
ModelScript == {<<Scalar(I(1)), Scalar(I(-2))>>, <<Scalar(I(0))>>, <<Table(<<I(2), I(0)>>)>>,
                <<Table(<<I(-1), I(0)>>)>>}
ModelQueries == {<<Table(<<I(1), I(2)>>)>>, <<Table(<<I(-2), I(1)>>)>>, <<Table(<<I(-1)>>)>>}

NextModel ==
    \/ Lifecycle
    \/ \E self \in Objs : Solver_addDIMACSSeqence(self, ModelScript)
    \/ \E self \in Objs : Solver_isSatisfiable(self)
    \/ \E self \in Objs : Solver_query(self, ModelQueries)

SpecModel == Init /\ [][NextModel]_vars

\* ------------------------------------------------------------- properties
\* The value v is the integer n.
SameInt(v, n) == v.k = "int" /\ v.hi = 0 /\ v.lo = n

\* The literals the last invocation gave to the engine, in order.
Lits == [j \in 1..Len(calls) |-> calls[j].lit]

\* C1: whenever addDIMACSequence on a live session fails with "Illegal
\* argument in DIMACS sequence", no literal of that call has been forwarded
\* to the engine.
C1_AtomicValidation ==
    (last.op = "add" /\ last.mode = "live" /\ last.done = "err" /\ last.err = IllegalArg)
        => calls = <<>>

\* C2: lglrelease is called at most once on the engine of a session, and
\* exactly once by the time the userdata of a session that carries the class
\* is collected.
C2_ExactlyOnceRelease ==
    \A i \in Sessions :
        /\ rel[i] <= 1
        /\ (life[i] = "dead" /\ ud[i] = "eng" /\ mt[S(i)] = "Solver") => rel[i] = 1

\* C3: a call of addDIMACSequence, isSatisfiable or query on a session
\* already released fails with "Invalid self argument" and calls no engine
\* primitive.
C3_DisposedIsTerminal ==
    (last.op \in {"add", "sat", "query"} /\ last.disposed)
        => (last.done = "err" /\ last.err = InvalidSelf /\ calls = <<>>)

\* C4: every operation, disposal included, called with a self that is not a
\* userdata carrying the Solver class fails with "Invalid self argument" and
\* calls no engine primitive.
C4_HandleValidationFirst ==
    (last.op \in {"add", "sat", "query", "gc"} /\ ~last.valid)
        => (last.done = "err" /\ last.err = InvalidSelf /\ calls = <<>>)

\* C5: a successful addDIMACSequence call whose entries are all integers
\* gives the engine exactly those integers, argument by argument and each
\* table in index order, and they are the end of the engine's stream.
C5_OrderPreservingForwarding ==
    LET flat == Flatten(last.args)
    IN  (/\ last.op = "add"
         /\ last.mode = "live"
         /\ last.done = "ret"
         /\ \A j \in 1..Len(flat) : flat[j].k = "int")
            => /\ Len(calls) = Len(flat)
               /\ \A j \in 1..Len(flat) :
                      calls[j].p = "lgladd" /\ SameInt(flat[j], calls[j].lit)
               /\ Len(stream[last.self.s]) >= Len(calls)
               /\ SubSeq(stream[last.self.s],
                         Len(stream[last.self.s]) - Len(calls) + 1,
                         Len(stream[last.self.s])) = Lits

\* C5, for integers an int holds: the same statement holds.
C5_WithinInt ==
    LET flat == Flatten(last.args)
    IN  (/\ last.op = "add"
         /\ last.done = "ret"
         /\ \A j \in 1..Len(flat) : flat[j].k = "int" /\ flat[j].hi = 0)
            => /\ Len(calls) = Len(flat)
               /\ \A j \in 1..Len(flat) :
                      calls[j].p = "lgladd" /\ SameInt(flat[j], calls[j].lit)
               /\ last.mode = "live" =>
                      /\ Len(stream[last.self.s]) >= Len(calls)
                      /\ SubSeq(stream[last.self.s],
                                Len(stream[last.self.s]) - Len(calls) + 1,
                                Len(stream[last.self.s])) = Lits

\* The index of the first entry that is no integer, Len + 1 when all are.
FirstMalformed(flat) ==
    LET bad == {j \in 1..Len(flat) : ~Representable(flat[j])}
    IN  IF bad = {} THEN Len(flat) + 1 ELSE CHOOSE j \in bad : \A k \in bad : j <= k

\* C6: an addDIMACSequence call on a live session fails with "Illegal
\* argument in DIMACS sequence" if and only if some scalar argument or table
\* entry is not representable as an integer, and the engine receives the
\* entries before the first such entry and nothing of it or after it.
C6_NonIntegerRejection ==
    LET flat == Flatten(last.args)
        k == FirstMalformed(flat)
    IN  (last.op = "add" /\ last.mode = "live")
            => /\ (last.done = "err" /\ last.err = IllegalArg) <=> (k <= Len(flat))
               /\ last.done = "ret" <=> (k > Len(flat))
               /\ Len(calls) = k - 1
               /\ \A j \in 1..(k - 1) : calls[j].p = "lgladd" /\ calls[j].lit = flat[j].lo

\* C6 happens: a call is rejected for an entry that follows a valid one.
C6_Witness ==
    /\ last.op = "add"
    /\ last.mode = "live"
    /\ last.err = IllegalArg
    /\ calls # <<>>
    /\ \E j \in 1..Len(Flatten(last.args)) : Flatten(last.args)[j].k = "fracfloat"

\* The clauses the script has added to the engine of the last call, and
\* whether they are zero-terminated clauses over the variables 1..MaxVar
\* added by successful calls only.
Added == Clauses(submitted[last.self.s])
WellFormedCnf ==
    /\ clean[last.self.s]
    /\ Added.open = <<>>
    /\ \A j \in 1..Len(submitted[last.self.s]) : Abs(submitted[last.self.s][j]) <= MaxVar

\* C7 (as stated): isSatisfiable on a live session returns true exactly when
\* the zero-terminated clauses added so far are satisfiable.
C7_AgreesWithReference ==
    (last.op = "sat" /\ last.mode = "live" /\ last.done = "ret" /\ WellFormedCnf)
        => (last.retB <=> Satisfiable(Added.closed))

\* C7 (amended): isSatisfiable on a live session returns true only when the
\* zero-terminated clauses added so far are satisfiable, and whenever the
\* engine reports a verdict (satisfiable or unsatisfiable) it returns true
\* exactly when they are satisfiable; it returns false when the engine gives
\* up with LGL_UNKNOWN.
C7_AgreesWhenDecided ==
    (last.op = "sat" /\ last.mode = "live" /\ last.done = "ret" /\ WellFormedCnf)
        => /\ last.retB => Satisfiable(Added.closed)
           /\ last.code \in {LGL_SATISFIABLE, LGL_UNSATISFIABLE}
                  => (last.retB <=> Satisfiable(Added.closed))
           /\ last.code = LGL_UNKNOWN => ~last.retB

\* C7 happens: after a solve that returned true more clauses were added in
\* separate calls, and the next solve reports the enlarged set unsatisfiable.
C7_Witness ==
    /\ last.op = "sat"
    /\ last.mode = "live"
    /\ last.done = "ret"
    /\ WellFormedCnf
    /\ solved[last.self.s]
    /\ last.code = LGL_UNSATISFIABLE
    /\ ~last.retB
    /\ Added.closed = {{1}, {-1}}

\* C8: an isSatisfiable call that passes get_lgl calls lglsat exactly once and
\* raises no error; when lglsat returns, the call returns true if and only if
\* the return code is LGL_SATISFIABLE, so false for LGL_UNSATISFIABLE and for
\* LGL_UNKNOWN.
C8_BooleanCollapse ==
    (last.op = "sat" /\ last.valid)
        => /\ Len(calls) = 1
           /\ calls[1].p = "lglsat"
           /\ last.done # "err"
           /\ last.done = "ret"
                  => /\ last.err = ""
                     /\ calls[1].r = last.code
                     /\ last.retB <=> (calls[1].r = LGL_SATISFIABLE)
                     /\ calls[1].r \in {LGL_UNSATISFIABLE, LGL_UNKNOWN} => ~last.retB

\* C8 happens: the engine gives up on a satisfiable set of clauses and the
\* call returns false.
C8_Witness ==
    /\ last.op = "sat"
    /\ last.mode = "live"
    /\ last.done = "ret"
    /\ calls = <<Ev("lglsat", "live", 0, LGL_UNKNOWN)>>
    /\ ~last.retB
    /\ WellFormedCnf
    /\ Added.closed # {}
    /\ Satisfiable(Added.closed)

\* The table a query call was given.
QueryTable == IF Len(last.args) = 1 /\ last.args[1].tbl THEN last.args[1].elems ELSE <<>>

\* C9: a successful query on a live session after a satisfiable solve, with
\* a table of non-zero integers, returns a table of the same length, calls
\* lglderef once per entry, on that entry and in order, and entry j of the
\* result is what the j-th lglderef returned.
C9_QueryResultShape ==
    (/\ last.op = "query"
     /\ last.mode = "live"
     /\ last.done = "ret"
     /\ res[last.self.s] = "SATISFIED"
     /\ \A j \in 1..Len(QueryTable) : QueryTable[j].k = "int" /\ ~IsZero(QueryTable[j]))
        => /\ Len(last.retT) = Len(QueryTable)
           /\ Len(calls) = Len(QueryTable)
           /\ \A j \in 1..Len(QueryTable) :
                  /\ calls[j].p = "lglderef"
                  /\ SameInt(QueryTable[j], calls[j].lit)
                  /\ last.retT[j] = calls[j].r

\* C10 (as stated): every entry of a query result after a satisfiable solve
\* is +c, -c or 0 for the queried literal c.
C10_QueryValueRange ==
    (/\ last.op = "query"
     /\ last.mode = "live"
     /\ last.done = "ret"
     /\ res[last.self.s] = "SATISFIED")
        => \A j \in 1..Len(last.retT) :
               /\ QueryTable[j].k = "int"
               /\ QueryTable[j].hi = 0
                      => last.retT[j] \in {QueryTable[j].lo, -QueryTable[j].lo, 0}

\* C10 (amended): every entry of a query result on a live session is +1, -1
\* or 0: what lglderef returned for the queried literal c, which after a
\* satisfiable solve is +1 when c is true in the model found and -1 when it
\* is false, whatever the magnitude of c.
C10_QuerySignRange ==
    (last.op = "query" /\ last.mode = "live" /\ last.done = "ret")
        => \A j \in 1..Len(last.retT) :
               /\ last.retT[j] \in {-1, 0, 1}
               /\ last.retT[j] = calls[j].r
               /\ res[last.self.s] = "SATISFIED"
                      => last.retT[j] = LglDeref(model[last.self.s], calls[j].lit)

\* C10 happens: after a satisfiable solve the literal -2 is queried and the
\* result holds a sign, not the literal.
C10_Witness ==
    /\ last.op = "query"
    /\ last.mode = "live"
    /\ last.done = "ret"
    /\ res[last.self.s] = "SATISFIED"
    /\ \E j \in 1..Len(last.retT) :
           /\ SameInt(QueryTable[j], -2)
           /\ last.retT[j] \in {-1, 1}

\* An assignment agrees with a query result when every literal reported true
\* (+1) is true in it and every literal reported false (-1) is false in it;
\* an entry 0 leaves its literal free.
Agrees(a, t, r) ==
    \A j \in 1..Len(r) :
        /\ r[j] = 1 => LitTrue(a, t[j].lo)
        /\ r[j] = -1 => ~LitTrue(a, t[j].lo)

\* C11: after isSatisfiable returned true for zero-terminated clauses, the
\* signs a query returns for literals over their variables agree with at
\* least one assignment that satisfies every clause added.
C11_QueryDescribesModel ==
    (/\ last.op = "query"
     /\ last.mode = "live"
     /\ last.done = "ret"
     /\ res[last.self.s] = "SATISFIED"
     /\ WellFormedCnf
     /\ \A j \in 1..Len(QueryTable) :
            QueryTable[j].k = "int" /\ QueryTable[j].hi = 0 /\ Abs(QueryTable[j].lo) <= MaxVar)
        => /\ Len(last.retT) = Len(QueryTable)
           /\ \E a \in Models(Added.closed) : Agrees(a, QueryTable, last.retT)

\* C11 happens: the clause (1 or -2) was added in two calls and solved; the
\* query of both variables reports both false.
C11_Witness ==
    /\ last.op = "query"
    /\ last.mode = "live"
    /\ last.done = "ret"
    /\ res[last.self.s] = "SATISFIED"
    /\ WellFormedCnf
    /\ Added.closed = {{1, -2}}
    /\ Len(QueryTable) = 2
    /\ SameInt(QueryTable[1], 1)
    /\ SameInt(QueryTable[2], 2)
    /\ last.retT = <<-1, -1>>

\* The table of the last query holds the integer 0 at some position.
HasZeroEntry == \E j \in 1..Len(QueryTable) : SameInt(QueryTable[j], 0)

\* C12: a query on a live session whose table holds a zero at any position
\* fails with "Array may contain only non-zero integers" and returns no
\* table.
C12_ZeroLiteralRejected ==
    (last.op = "query" /\ last.mode = "live" /\ HasZeroEntry)
        => (last.done = "err" /\ last.err = NonZero /\ last.retT = <<>>)

\* C12, directly after a satisfiable solve and for entries an int holds: the
\* same statement holds, lglderef being within its contract for the entries
\* before the zero.
C12_AfterSatisfiable ==
    (/\ last.op = "query"
     /\ last.mode = "live"
     /\ HasZeroEntry
     /\ res[last.self.s] = "SATISFIED"
     /\ \A j \in 1..Len(QueryTable) : QueryTable[j].k = "int" => QueryTable[j].hi = 0)
        => (last.done = "err" /\ last.err = NonZero /\ last.retT = <<>>)

\* C13: a query call changes neither the engine's literal stream nor its
\* solve state nor the life of the session, and a query on a live session
\* that directly follows a returned query with the same table after a
\* satisfiable solve returns the same table of results.
C13_QueryReadOnlyIdempotent ==
    [][last'.op = "query"
          => /\ UNCHANGED <<mt, life, ud, est, rel, stream, res, model, submitted, clean, solved>>
             /\ (/\ last.op = "query"
                 /\ last.mode = "live"
                 /\ last.done = "ret"
                 /\ res[last.self.s] = "SATISFIED"
                 /\ last'.self = last.self
                 /\ last'.args = last.args)
                    => (last'.done = "ret" /\ last'.retT = last.retT)]_vars

\* C13 happens: after a satisfiable solve the same non-empty table is
\* queried a second time.
C13_Witness ==
    /\ last.op = "query"
    /\ last.mode = "live"
    /\ last.rep
    /\ last.done = "ret"
    /\ res[last.self.s] = "SATISFIED"
    /\ Len(last.retT) = 2

\* C14: after every call of Solver.new the userdata it returns carries the
\* Solver class, and no value that is not a session has been given it.
C14_ConstructorIdentity ==
    last.op = "new"
        => /\ mt[last.self] = "Solver"
           /\ mt[F("num")] = "none"
           /\ mt[F("cls")] = "none"
           /\ mt[F("fud")] = "Other"

\* C14, for a call without arguments: the userdata is stack index 1 and
\* gets the class.
C14_NoArguments ==
    (last.op = "new" /\ last.valid) => mt[last.self] = "Solver"

\* C15: a Solver.new whose lglinit yields no engine raises an error and
\* creates no session, so every session userdata holds an engine.
C15_InitFailureSurfaced ==
    /\ (last.op = "new" /\ calls = <<Ev("lglinit", "null", 0, 0)>>)
           => (last.done = "err" /\ life[last.self.s] = "unborn")
    /\ \A i \in Sessions : life[i] # "unborn" => ud[i] = "eng"

\* C16 (as stated): a query on a live session that holds no solve result,
\* with a table of non-zero integers, raises no error and returns, entry by
\* entry, what lglderef reports.
C16_QueryBeforeSolveReturns ==
    (/\ last.op = "query"
     /\ last.mode = "live"
     /\ Len(last.args) = 1
     /\ last.args[1].tbl
     /\ res[last.self.s] = "READY"
     /\ \A j \in 1..Len(QueryTable) : QueryTable[j].k = "int" /\ ~IsZero(QueryTable[j]))
        => /\ last.done = "ret"
           /\ Len(last.retT) = Len(QueryTable)
           /\ Len(calls) = Len(QueryTable)
           /\ \A j \in 1..Len(QueryTable) : last.retT[j] = calls[j].r

\* C16 (amended): a query on a live session that holds no solve result, with
\* a table of non-zero integers, raises no error; lglderef is called for the
\* entries in order, outside its contract, and may end the process; when the
\* calls return, the result holds, entry by entry, what they returned.
C16_QueryNotGated ==
    (/\ last.op = "query"
     /\ last.mode = "live"
     /\ Len(last.args) = 1
     /\ last.args[1].tbl
     /\ res[last.self.s] = "READY"
     /\ \A j \in 1..Len(QueryTable) : QueryTable[j].k = "int" /\ ~IsZero(QueryTable[j]))
        => /\ last.done # "err"
           /\ \A j \in 1..Len(calls) : calls[j].p = "lglderef" /\ calls[j].lit = CInt(QueryTable[j])
           /\ last.done = "ret"
                  => /\ Len(last.retT) = Len(QueryTable)
                     /\ Len(calls) = Len(QueryTable)
                     /\ \A j \in 1..Len(QueryTable) : last.retT[j] = calls[j].r

\* C16 happens: a query of two literals before any solve returns two entries.
C16_Witness ==
    /\ last.op = "query"
    /\ last.mode = "live"
    /\ last.done = "ret"
    /\ res[last.self.s] = "READY"
    /\ ~solved[last.self.s]
    /\ Len(QueryTable) = 2
    /\ Len(last.retT) = 2
    /\ Len(calls) = 2

\* The entries the last call read, in the order it gives them to the engine.
Supplied == IF last.op = "add" THEN Flatten(last.args) ELSE QueryTable

\* C17: every integer an addDIMACSequence or query call on a live session
\* gives to lgladd or lglderef is the integer the caller supplied.
C17_LiteralsUnaltered ==
    (last.op \in {"add", "query"} /\ last.mode = "live")
        => \A j \in 1..Len(calls) :
               Supplied[j].k = "int" => SameInt(Supplied[j], calls[j].lit)

\* C17, for integers an int holds: the engine receives the caller's value.
C17_WithinInt ==
    (last.op \in {"add", "query"} /\ last.mode = "live")
        => \A j \in 1..Len(calls) :
               (Supplied[j].k = "int" /\ Supplied[j].hi = 0)
                   => SameInt(Supplied[j], calls[j].lit)

\* C18: every write getGraphFromLua performs is at the index
\* n*(u-1)+(v-1) of vertices 1 <= u <= n and 1 <= v <= n, inside the matrix.
C18_WritesInBounds ==
    \A j \in 1..Len(mex.writes) :
        LET w == mex.writes[j]
        IN  /\ w.idx = mex.n * (w.u - 1) + (w.v - 1)
            /\ 1 <= w.u /\ w.u <= mex.n
            /\ 1 <= w.v /\ w.v <= mex.n
            /\ InBounds(mex.n, w)

\* C18, for scripts that return vertices of the graph only: every write is
\* at n*(u-1)+(v-1), inside the matrix, and the call returns.
C18_VerticesInRange ==
    (/\ mex.done \in {"ret", "crash"}
     /\ \A j \in 1..Len(mex.writes) :
            /\ 1 <= mex.writes[j].u /\ mex.writes[j].u <= mex.n
            /\ 1 <= mex.writes[j].v /\ mex.writes[j].v <= mex.n)
        => /\ mex.done = "ret"
           /\ \A j \in 1..Len(mex.writes) :
                  /\ mex.writes[j].idx = mex.n * (mex.writes[j].u - 1) + (mex.writes[j].v - 1)
                  /\ InBounds(mex.n, mex.writes[j])

\* C19: when control has left getGraphFromLua, by return or by a host error
\* call, every interpreter state it created has been closed exactly once.
C19_InterpreterClosed ==
    mex.done \in {"ret", "loadError", "runError"} => mex.closed = mex.opened

\* C19, on the success path: the one interpreter state is closed once.
C19_ClosedOnReturn ==
    mex.done = "ret" => (mex.opened = 1 /\ mex.closed = 1)

====
